---- MODULE Spec2Model ----
(***************************************************************************)
(* Model of app.py: a Streamlit script whose main() is re-executed on      *)
(* every user interaction, for several sessions of one process.  Shared    *)
(* between the sessions are the three caches the decorators create         *)
(* (st.cache_resource for init_components, st.cache_data for               *)
(* get_similar_docs and generate_code_cached) and the error log file.      *)
(* The Document Store, the Generation Model and the accelerator are the    *)
(* environment: a call either returns a fresh value or raises.             *)
(*                                                                         *)
(* Spec     one session, run after run, over the wider inputs and clock.   *)
(* SpecConc two sessions whose runs interleave, over narrower inputs.      *)
(* SpecLen  the length computation of generate_code_cached on texts.       *)
(***************************************************************************)
EXTENDS Integers, Sequences, FiniteSets, TLC

\* ---------------------------------------------------------------- bounds
MaxRuns == 3          \* script runs (re-executions of main), one session
MaxRunsConc == 3      \* script runs, two concurrent sessions
MaxErrors == 2        \* collaborator calls that raise in a behaviour

Sessions == {"s1", "s2"}
Solo == {"s1"}        \* the session that acts when the runs are sequential
NoSession == "nobody"
\* What the widgets may hold when "Generate Code" is clicked: the query, the
\* language, the "Maximum Code Length" slider, "Include explanation".
Requests ==
    { [query |-> "sort a list", language |-> "Python", max_length |-> 500, explain |-> TRUE],
      [query |-> "parse json",  language |-> "Python", max_length |-> 500, explain |-> TRUE],
      [query |-> "sort a list", language |-> "Python", max_length |-> 100, explain |-> FALSE] }
\* The instants at which the clock is observed: inside, at and past the
\* 300 s window, and inside, at and past the 3600 s window.
Instants == {0, 150, 300, 3600}
\* The narrower inputs of the two-session specification.
ConcRequests ==
    { [query |-> "sort a list", language |-> "Python", max_length |-> 500, explain |-> TRUE] }
ConcInstants == {0, 3600}

\* ------------------------------------------------------ program constants
TTL_COMPONENTS == 3600
TTL_QUERY == 300
TTL_GENERATION == 300
DEFAULT_K == 3
MIN_LENGTH == 500
MARGIN == 200
EXPLAIN_MAX_LENGTH == 300
SLIDER_DEFAULT == 500

None == 0                      \* Python's None, as a handle or a value
NonePair == <<None, None>>     \* "return None, None"
NoValue == <<None, None>>      \* a local not yet assigned
EmptyCache == [x \in {} |-> 0]
NoArgs == <<>>                 \* init_components takes no arguments

VARIABLES
    now,          \* wall clock, seconds
    cuda,         \* torch.cuda.is_available()
    resCache,     \* st.cache_resource store of init_components: args -> entry
    resLock,      \* holder of the compute lock of init_components' cache
    qCache,       \* st.cache_data store of get_similar_docs: args -> entry
    gCache,       \* st.cache_data store of generate_code_cached: args -> entry
    docCalls,     \* db.similarity_search calls made
    genCalls,     \* generator.generate_code calls made
    builds,       \* executions of the body of init_components
    stores,       \* store handles created so far (identity of the newest)
    lastRefresh,  \* the store handle the latest successful refresh created
    errors,       \* lines written by logging.error
    runs,         \* script runs started
    pc, db, generator, clicked, language, user_query, max_length,
    include_explanation, docs, generated_code, explanation,
    log,          \* per run: collaborator / accelerator calls and cache outcomes
    monitor,      \* per run: names of the open records of `monitor`
    outcome,      \* per run: what the page shows
    lpc, lprompt, lrequested, lpassed,  \* generate_code_cached on real text
    lwords        \* the number of words the text in lprompt was built from

mainVars == <<now, cuda, resCache, resLock, qCache, gCache, docCalls, genCalls,
              builds, stores, lastRefresh, errors, runs, pc, db, generator,
              clicked, language, user_query, max_length, include_explanation,
              docs, generated_code, explanation, log, monitor, outcome>>
lenVars == <<lpc, lprompt, lrequested, lpassed, lwords>>
vars == <<mainVars, lenVars>>

\* ------------------------------------------------- the caching decorators
\* An entry is served while now - createdAt < ttl.
\* As if the entry were still served at the instant its age reaches the ttl.
CacheHas_Inclusive(cache, key, ttl) ==
    key \in DOMAIN cache /\ now - cache[key].createdAt <= ttl

CacheHas(cache, key, ttl) ==
    key \in DOMAIN cache /\ now - cache[key].createdAt < ttl

\* As if the store kept one entry only (max_entries=1).
CachePut_SingleEntry(cache, key, value) ==
    [x \in {key} |-> [value |-> value, createdAt |-> now]]

CachePut(cache, key, value) ==
    [x \in DOMAIN cache \cup {key} |->
        IF x = key THEN [value |-> value, createdAt |-> now] ELSE cache[x]]

\* What a decorator's store holds after the wrapped function was called on
\* a miss: its return value, or what it held before when the call raised.
\* As if the wrapped function caught its exception and returned None.
StoreResult_Always(cache, key, ok, value) ==
    CachePut(cache, key, IF ok THEN value ELSE NoValue)

StoreResult(cache, key, ok, value) ==
    IF ok THEN CachePut(cache, key, value) ELSE cache

\* The compute lock st.cache_resource takes around a miss.
\* As if a miss computed the value without taking the lock.
LockFree_Always == TRUE

LockFree == resLock = NoSession

\* monitor.start(name) and monitor.end(name) on the set of open records.
MonitorStart(open, name) == open \cup {name}
MonitorEnd(open, name) == open \ {name}

MayFail == errors < MaxErrors

Emit(s, events) == log' = [log EXCEPT ![s] = log[s] \o events]
\* As if the test of torch.cuda.is_available() were inverted.
ClearMemory_Inverted == IF cuda THEN <<>> ELSE <<"clear">>

\* "if torch.cuda.is_available(): GPUManager.clear_memory()"
ClearMemory == IF cuda THEN <<"clear">> ELSE <<>>

\* ------------------------------------------------------------------ main
LenIdle ==
    lpc = "off" /\ lprompt = <<>> /\ lrequested = 0 /\ lpassed = 0 /\ lwords = 0

MainInit ==
    /\ now = 0
    /\ cuda \in BOOLEAN
    /\ resCache = EmptyCache /\ resLock = NoSession
    /\ qCache = EmptyCache /\ gCache = EmptyCache
    /\ docCalls = 0 /\ genCalls = 0 /\ builds = 0 /\ stores = 0
    /\ lastRefresh = 0 /\ errors = 0 /\ runs = 0
    /\ pc = [s \in Sessions |-> "idle"]
    /\ db = [s \in Sessions |-> None]
    /\ generator = [s \in Sessions |-> None]
    /\ clicked = [s \in Sessions |-> "none"]
    /\ language = [s \in Sessions |-> "Python"]
    /\ user_query = [s \in Sessions |-> ""]
    /\ max_length = [s \in Sessions |-> SLIDER_DEFAULT]
    /\ include_explanation = [s \in Sessions |-> TRUE]
    /\ docs = [s \in Sessions |-> NoValue]
    /\ generated_code = [s \in Sessions |-> NoValue]
    /\ explanation = [s \in Sessions |-> NoValue]
    /\ log = [s \in Sessions |-> <<>>]
    /\ monitor = [s \in Sessions |-> {}]
    /\ outcome = [s \in Sessions |-> "none"]

Init == MainInit /\ LenIdle

\* The host runtime starts a run of the script for session s: the module
\* level code creates a new monitor and main() opens "app_startup".
RunStart(s, limit) ==
    /\ pc[s] = "idle" /\ runs < limit
    /\ runs' = runs + 1
    /\ monitor' = [monitor EXCEPT ![s] = MonitorStart({}, "app_startup")]
    /\ outcome' = [outcome EXCEPT ![s] = "none"]
    /\ pc' = [pc EXCEPT ![s] = "init_lookup"]
    /\ UNCHANGED <<now, cuda, resCache, resLock, qCache, gCache, docCalls,
                   genCalls, builds, stores, lastRefresh, errors, db, generator,
                   clicked, language, user_query, max_length,
                   include_explanation, docs, generated_code, explanation, log>>
    /\ UNCHANGED lenVars

\* init_components(): the decorator's first look at its store, no lock held.
InitLookup(s) ==
    /\ pc[s] = "init_lookup"
    /\ IF CacheHas(resCache, NoArgs, TTL_COMPONENTS)
       THEN /\ db' = [db EXCEPT ![s] = resCache[NoArgs].value[1]]
            /\ generator' = [generator EXCEPT ![s] = resCache[NoArgs].value[2]]
            /\ pc' = [pc EXCEPT ![s] = "after_init"]
            /\ Emit(s, <<"init_hit">>)
       ELSE /\ pc' = [pc EXCEPT ![s] = "init_wait"]
            /\ UNCHANGED <<db, generator, log>>
    /\ UNCHANGED <<now, cuda, resCache, resLock, qCache, gCache, docCalls,
                   genCalls, builds, stores, lastRefresh, errors, runs, clicked,
                   language, user_query, max_length, include_explanation, docs,
                   generated_code, explanation, monitor, outcome>>
    /\ UNCHANGED lenVars

\* After a miss the decorator takes the compute lock and looks again.
InitAcquire(s) ==
    /\ pc[s] = "init_wait" /\ LockFree
    /\ IF CacheHas(resCache, NoArgs, TTL_COMPONENTS)
       THEN /\ db' = [db EXCEPT ![s] = resCache[NoArgs].value[1]]
            /\ generator' = [generator EXCEPT ![s] = resCache[NoArgs].value[2]]
            /\ pc' = [pc EXCEPT ![s] = "after_init"]
            /\ Emit(s, <<"init_waited_hit">>)
            /\ UNCHANGED resLock
       ELSE /\ resLock' = s
            /\ pc' = [pc EXCEPT ![s] = "init_body"]
            /\ Emit(s, IF NoArgs \in DOMAIN resCache THEN <<"init_expired">> ELSE <<>>)
            /\ UNCHANGED <<db, generator>>
    /\ UNCHANGED <<now, cuda, resCache, qCache, gCache, docCalls, genCalls,
                   builds, stores, lastRefresh, errors, runs, clicked, language,
                   user_query, max_length, include_explanation, docs,
                   generated_code, explanation, monitor, outcome>>
    /\ UNCHANGED lenVars

\* The body of init_components, then the decorator stores what it returned
\* and releases the lock.  A failure is caught inside the body, which then
\* returns (None, None) like any other value.
InitBody(s) ==
    /\ pc[s] = "init_body"
    /\ builds' = builds + 1
    /\ \E ok \in BOOLEAN :
        /\ ok \/ MayFail
        /\ LET value == IF ok THEN <<stores + 1, builds + 1>> ELSE NonePair IN
            /\ stores' = IF ok THEN stores + 1 ELSE stores
            /\ errors' = IF ok THEN errors ELSE errors + 1
            /\ monitor' = [monitor EXCEPT ![s] =
                   IF ok THEN MonitorEnd(MonitorStart(@, "init_components"), "init_components")
                         ELSE MonitorStart(@, "init_components")]
            /\ Emit(s, ClearMemory \o <<IF ok THEN "construct" ELSE "construct_failed">>)
            /\ resCache' = StoreResult(resCache, NoArgs, TRUE, value)
            /\ db' = [db EXCEPT ![s] = value[1]]
            /\ generator' = [generator EXCEPT ![s] = value[2]]
    /\ resLock' = NoSession
    /\ pc' = [pc EXCEPT ![s] = "after_init"]
    /\ UNCHANGED <<now, cuda, qCache, gCache, docCalls, genCalls, lastRefresh,
                   runs, clicked, language, user_query, max_length,
                   include_explanation, docs, generated_code, explanation,
                   outcome>>
    /\ UNCHANGED lenVars

\* The run is over: the locals are gone, the page and the monitor stay.
EndRun(s) ==
    /\ db' = [db EXCEPT ![s] = None]
    /\ generator' = [generator EXCEPT ![s] = None]
    /\ clicked' = [clicked EXCEPT ![s] = "none"]
    /\ language' = [language EXCEPT ![s] = "Python"]
    /\ user_query' = [user_query EXCEPT ![s] = ""]
    /\ max_length' = [max_length EXCEPT ![s] = SLIDER_DEFAULT]
    /\ include_explanation' = [include_explanation EXCEPT ![s] = TRUE]
    /\ docs' = [docs EXCEPT ![s] = NoValue]
    /\ generated_code' = [generated_code EXCEPT ![s] = NoValue]
    /\ explanation' = [explanation EXCEPT ![s] = NoValue]
    /\ log' = [log EXCEPT ![s] = <<>>]
    /\ pc' = [pc EXCEPT ![s] = "idle"]

\* "if db is None or generator is None: st.stop()"
StopRun(s) ==
    /\ pc[s] = "after_init"
    /\ db[s] = None \/ generator[s] = None
    /\ outcome' = [outcome EXCEPT ![s] = "stopped"]
    /\ EndRun(s)
    /\ UNCHANGED <<now, cuda, resCache, resLock, qCache, gCache, docCalls,
                   genCalls, builds, stores, lastRefresh, errors, runs, monitor>>
    /\ UNCHANGED lenVars

\* The sidebar, with the "Refresh Documentation Database" button.  A run is
\* caused by one interaction, so one button at most reads as clicked.
Sidebar(s) ==
    /\ pc[s] = "after_init"
    /\ db[s] # None /\ generator[s] # None
    /\ \E refresh \in BOOLEAN :
        IF refresh
        THEN /\ clicked' = [clicked EXCEPT ![s] = "refresh"]
             /\ \E ok \in BOOLEAN :
                /\ ok \/ MayFail
                /\ IF ok
                   THEN /\ stores' = stores + 1
                        /\ lastRefresh' = stores + 1
                        /\ db' = [db EXCEPT ![s] = stores + 1]
                        /\ monitor' = [monitor EXCEPT ![s] =
                               MonitorEnd(MonitorStart(@, "refresh_database"), "refresh_database")]
                        /\ Emit(s, <<"refresh">> \o ClearMemory)
                        /\ UNCHANGED <<errors, outcome>>
                   ELSE /\ errors' = errors + 1
                        /\ outcome' = [outcome EXCEPT ![s] = "error"]
                        /\ monitor' = [monitor EXCEPT ![s] = MonitorStart(@, "refresh_database")]
                        /\ Emit(s, <<"refresh_failed">>)
                        /\ UNCHANGED <<stores, lastRefresh, db>>
        ELSE UNCHANGED <<clicked, stores, lastRefresh, db, monitor, log, errors, outcome>>
    /\ pc' = [pc EXCEPT ![s] = "request"]
    /\ UNCHANGED <<now, cuda, resCache, resLock, qCache, gCache, docCalls,
                   genCalls, builds, runs, generator, language,
                   user_query, max_length, include_explanation, docs,
                   generated_code, explanation>>
    /\ UNCHANGED lenVars

\* The keys the st.cache_data decorators build from the call's arguments.
QueryKey(s) == <<db[s], user_query[s], DEFAULT_K>>
CodePrompt(s) == <<"code", language[s], user_query[s], docs[s]>>
ExplainPrompt(s) == <<"explain", language[s], "", generated_code[s]>>
GenKey(s, prompt, requested) == <<generator[s], prompt, requested>>

\* An exception inside the try block of main: logged, shown, rest skipped.
Raise(s, record) ==
    /\ errors' = errors + 1
    /\ outcome' = [outcome EXCEPT ![s] = "error"]
    /\ monitor' = [monitor EXCEPT ![s] = MonitorStart(@, record)]
    /\ pc' = [pc EXCEPT ![s] = "footer"]

\* "if generate_button and user_query:" is false.
SkipRequest(s) ==
    /\ pc[s] = "request"
    /\ pc' = [pc EXCEPT ![s] = "footer"]
    /\ UNCHANGED <<now, cuda, resCache, resLock, qCache, gCache, docCalls,
                   genCalls, builds, stores, lastRefresh, errors, runs, db,
                   generator, clicked, language, user_query, max_length,
                   include_explanation, docs, generated_code, explanation, log,
                   monitor, outcome>>
    /\ UNCHANGED lenVars

\* "Generate Code" was clicked with a query typed in: the widgets' values
\* of this run, the release before the heavy work, then get_similar_docs.
\* The store returns documents never seen before, or raises.
Search(s, requests) ==
    /\ pc[s] = "request" /\ clicked[s] # "refresh"
    /\ \E r \in requests :
        /\ clicked' = [clicked EXCEPT ![s] = "generate"]
        /\ user_query' = [user_query EXCEPT ![s] = r.query]
        /\ language' = [language EXCEPT ![s] = r.language]
        /\ max_length' = [max_length EXCEPT ![s] = r.max_length]
        /\ include_explanation' = [include_explanation EXCEPT ![s] = r.explain]
        /\ LET key == <<db[s], r.query, DEFAULT_K>>
               found == <<db[s], docCalls + 1>>
               stale == IF key \in DOMAIN qCache THEN <<"search_expired">> ELSE <<>>
           IN
           IF CacheHas(qCache, key, TTL_QUERY)
           THEN /\ docs' = [docs EXCEPT ![s] = qCache[key].value]
                /\ Emit(s, ClearMemory \o <<"search_hit">>)
                /\ pc' = [pc EXCEPT ![s] = "generate"]
                /\ UNCHANGED <<qCache, docCalls, errors, outcome, monitor>>
           ELSE \E ok \in BOOLEAN :
                /\ ok \/ MayFail
                /\ docCalls' = docCalls + 1
                /\ qCache' = StoreResult(qCache, key, ok, found)
                /\ IF ok
                   THEN /\ docs' = [docs EXCEPT ![s] = found]
                        /\ Emit(s, ClearMemory \o stale \o <<"search">>)
                        /\ pc' = [pc EXCEPT ![s] = "generate"]
                        /\ UNCHANGED <<errors, outcome, monitor>>
                   ELSE /\ Raise(s, "similarity_search")
                        /\ Emit(s, ClearMemory \o stale \o <<"search_failed">>)
                        /\ UNCHANGED docs
    /\ UNCHANGED <<now, cuda, resCache, resLock, gCache, genCalls, builds,
                   stores, lastRefresh, runs, db, generator, generated_code,
                   explanation>>
    /\ UNCHANGED lenVars

\* generate_code_cached(generator, prompt, max_length) for the code.  The
\* model returns a text never produced before, or raises.
Generate(s) ==
    /\ pc[s] = "generate"
    /\ LET key == GenKey(s, CodePrompt(s), max_length[s])
           text == <<generator[s], genCalls + 1>>
           stale == IF key \in DOMAIN gCache THEN <<"generate_expired">> ELSE <<>>
       IN
       IF CacheHas(gCache, key, TTL_GENERATION)
       THEN /\ generated_code' = [generated_code EXCEPT ![s] = gCache[key].value]
            /\ Emit(s, <<"generate_hit">>)
            /\ pc' = [pc EXCEPT ![s] = "explain"]
            /\ UNCHANGED <<gCache, genCalls, errors, outcome, monitor>>
       ELSE \E ok \in BOOLEAN :
            /\ ok \/ MayFail
            /\ genCalls' = genCalls + 1
            /\ gCache' = StoreResult(gCache, key, ok, text)
            /\ IF ok
               THEN /\ generated_code' = [generated_code EXCEPT ![s] = text]
                    /\ Emit(s, stale \o <<"generate">>)
                    /\ pc' = [pc EXCEPT ![s] = "explain"]
                    /\ UNCHANGED <<errors, outcome, monitor>>
               ELSE /\ Raise(s, "code_generation")
                    /\ Emit(s, stale \o <<"generate_failed">>)
                    /\ UNCHANGED generated_code
    /\ UNCHANGED <<now, cuda, resCache, resLock, qCache, docCalls, builds,
                   stores, lastRefresh, runs, db, generator, clicked, language,
                   user_query, max_length, include_explanation, docs, explanation>>
    /\ UNCHANGED lenVars

\* The optional explanation (requested length 300), then the release after
\* the heavy work.
Explain(s) ==
    /\ pc[s] = "explain"
    /\ LET key == GenKey(s, ExplainPrompt(s), EXPLAIN_MAX_LENGTH)
           text == <<generator[s], genCalls + 1>>
           stale == IF key \in DOMAIN gCache THEN <<"generate_expired">> ELSE <<>>
           Done(events) ==
               /\ Emit(s, events \o ClearMemory)
               /\ outcome' = [outcome EXCEPT ![s] = "ok"]
               /\ pc' = [pc EXCEPT ![s] = "footer"]
               /\ UNCHANGED <<errors, monitor>>
       IN
       IF ~include_explanation[s]
       THEN /\ Done(<<>>)
            /\ UNCHANGED <<gCache, genCalls, explanation>>
       ELSE IF CacheHas(gCache, key, TTL_GENERATION)
       THEN /\ explanation' = [explanation EXCEPT ![s] = gCache[key].value]
            /\ Done(<<"generate_hit">>)
            /\ UNCHANGED <<gCache, genCalls>>
       ELSE \E ok \in BOOLEAN :
            /\ ok \/ MayFail
            /\ genCalls' = genCalls + 1
            /\ gCache' = StoreResult(gCache, key, ok, text)
            /\ IF ok
               THEN /\ explanation' = [explanation EXCEPT ![s] = text]
                    /\ Done(stale \o <<"generate">>)
               ELSE /\ Raise(s, "code_generation")
                    /\ Emit(s, stale \o <<"generate_failed">>)
                    /\ UNCHANGED explanation
    /\ UNCHANGED <<now, cuda, resCache, resLock, qCache, docCalls, builds,
                   stores, lastRefresh, runs, db, generator, clicked, language,
                   user_query, max_length, include_explanation, docs,
                   generated_code>>
    /\ UNCHANGED lenVars

\* As if main returned without closing "app_startup".
Footer_NoEnd(s) ==
    /\ pc[s] = "footer"
    /\ EndRun(s)
    /\ UNCHANGED <<now, cuda, resCache, resLock, qCache, gCache, docCalls,
                   genCalls, builds, stores, lastRefresh, errors, runs, outcome,
                   monitor>>
    /\ UNCHANGED lenVars

\* The footer and monitor.end("app_startup"): the run is over.
Footer(s) ==
    /\ pc[s] = "footer"
    /\ monitor' = [monitor EXCEPT ![s] = MonitorEnd(@, "app_startup")]
    /\ EndRun(s)
    /\ UNCHANGED <<now, cuda, resCache, resLock, qCache, gCache, docCalls,
                   genCalls, builds, stores, lastRefresh, errors, runs, outcome>>
    /\ UNCHANGED lenVars

Tick(instants) ==
    /\ \E t \in instants : t > now /\ now' = t
    /\ UNCHANGED <<cuda, resCache, resLock, qCache, gCache, docCalls, genCalls,
                   builds, stores, lastRefresh, errors, runs, pc, db, generator,
                   clicked, language, user_query, max_length,
                   include_explanation, docs, generated_code, explanation, log,
                   monitor, outcome>>
    /\ UNCHANGED lenVars

\* ------------------------------------------- generate_code_cached on text
\* A text is a sequence of characters; every character that is not
\* whitespace is written "x", since str.split() looks at nothing else.
IsSpace(c) == c \in {" ", "\n", "\t"}
Word(n) == [i \in 1..n |-> "x"]
SP == <<" ">>
NL == <<"\n">>

\* n words of w characters, sep between them, pad blanks in front, and sep
\* once more at the end when trail.
Text(n, w, sep, pad, trail) ==
    LET unit == w + Len(sep)
        size == IF n = 0 THEN pad
                ELSE pad + n * unit - (IF trail THEN 0 ELSE Len(sep))
    IN [i \in 1..size |->
            IF i <= pad THEN " "
            ELSE LET j == (i - pad - 1) % unit IN
                 IF j < w THEN "x" ELSE sep[j - w + 1]]

WordCounts == {0, 1, 2, 50, 284, 285, 286, 296, 297, 300, 301, 400}
WordSizes == {1, 3}
Separators == {<<" ">>, <<"\n">>, <<" ", "\t">>}
Pads == {0, 2}
AllLanguages == {"Python", "JavaScript", "Java", "C++", "SQL"}
LanguageText(l) ==
    CASE l = "Python" -> Word(6) [] l = "JavaScript" -> Word(10)
      [] l = "Java" -> Word(4) [] l = "C++" -> Word(3) [] l = "SQL" -> Word(3)
SliderSteps == {100, 500, 1000}
DirectRequests == {50, 300, 1000}
ContextWords == {0, 3}

\* The f-string of main that builds the prompt for the code.
CodePromptText(l, query, context) ==
    NL \o Word(9) \o SP \o LanguageText(l) \o NL
       \o Word(5) \o SP \o query \o NL \o NL
       \o Word(9) \o SP \o Word(14) \o NL
       \o context \o NL \o NL
       \o Word(6) \o SP \o Word(8) \o SP \o Word(4) \o SP \o Word(4) \o SP
       \o Word(7) \o SP \o Word(4) \o SP \o Word(9) \o SP \o Word(3) \o SP
       \o Word(8) \o SP \o Word(9) \o NL

\* f"Explain this {language} code:\n{generated_code}"
ExplainPromptText(l, code) ==
    Word(7) \o SP \o Word(4) \o SP \o LanguageText(l) \o SP \o Word(5) \o NL \o code

\* len(prompt.split()): the maximal runs of characters that are not whitespace.
PromptLength(prompt) ==
    Cardinality({ i \in 1..Len(prompt) :
                    /\ ~IsSpace(prompt[i])
                    /\ (i = 1 \/ IsSpace(prompt[i - 1])) })

Max(a, b) == IF a >= b THEN a ELSE b

\* As if the requested length were the floor.
AdjustedLength_Requested(prompt, requested) ==
    Max(requested, PromptLength(prompt) + MARGIN)

\* adjusted_length = max(500, prompt_length + 200)
AdjustedLength(prompt, requested) == Max(MIN_LENGTH, PromptLength(prompt) + MARGIN)

LenInit ==
    /\ MainInit
    /\ lpc = "input" /\ lrequested = 0 /\ lpassed = 0
    /\ \E n \in WordCounts, w \in WordSizes, sep \in Separators,
          pad \in Pads, trail \in BOOLEAN :
          lprompt = Text(n, w, sep, pad, trail) /\ lwords = n

\* main builds the prompt for the code around the query the user typed.
BuildCodePrompt ==
    /\ lpc = "input" /\ lprompt # <<>>
    /\ \E l \in AllLanguages, c \in ContextWords, m \in SliderSteps :
        /\ lprompt' = CodePromptText(l, lprompt, Text(c, 3, NL, 0, FALSE))
        /\ lwords' = 15 + lwords + c
        /\ lrequested' = m
    /\ lpc' = "ready"
    /\ UNCHANGED lpassed
    /\ UNCHANGED mainVars

\* main builds the prompt for the explanation around the generated code.
BuildExplainPrompt ==
    /\ lpc = "input"
    /\ \E l \in AllLanguages :
        lprompt' = ExplainPromptText(l, lprompt)
    /\ lwords' = 4 + lwords
    /\ lrequested' = EXPLAIN_MAX_LENGTH
    /\ lpc' = "ready"
    /\ UNCHANGED lpassed
    /\ UNCHANGED mainVars

\* A call with the text as it is.
UsePromptAsIs ==
    /\ lpc = "input"
    /\ \E m \in DirectRequests : lrequested' = m
    /\ lpc' = "ready"
    /\ UNCHANGED <<lprompt, lwords, lpassed>>
    /\ UNCHANGED mainVars

\* generate_code_cached on a miss: the length handed to generate_code.
CallGenerate ==
    /\ lpc = "ready"
    /\ lpassed' = AdjustedLength(lprompt, lrequested)
    /\ lpc' = "done"
    /\ UNCHANGED <<lprompt, lwords, lrequested>>
    /\ UNCHANGED mainVars

LenNext == BuildCodePrompt \/ BuildExplainPrompt \/ UsePromptAsIs \/ CallGenerate

SpecLen == LenInit /\ [][LenNext]_vars

\* ------------------------------------------------------------- properties
Fresh(cache, key, ttl, t) == key \in DOMAIN cache /\ t - cache[key].createdAt < ttl
Stale(cache, key, ttl, t) == key \in DOMAIN cache /\ t - cache[key].createdAt >= ttl
Last(seq) == seq[Len(seq)]
Has(seq, e) == \E i \in DOMAIN seq : seq[i] = e

\* The steps of a session, told from the two states of a step.
InitReturn(s) ==
    pc[s] \in {"init_lookup", "init_wait", "init_body"} /\ pc'[s] = "after_init"
BodyStep(s) == pc[s] = "init_body" /\ pc'[s] = "after_init"
SearchStep(s) == pc[s] = "request" /\ clicked'[s] = "generate"
SearchKey(s) == <<db[s], user_query'[s], DEFAULT_K>>
GenerateStep(s) == pc[s] = "generate" /\ pc'[s] # "generate"
GenerateKey(s) == GenKey(s, CodePrompt(s), max_length[s])
ExplainStep(s) == pc[s] = "explain" /\ pc'[s] # "explain" /\ include_explanation[s]
ExplainKey(s) == GenKey(s, ExplainPrompt(s), EXPLAIN_MAX_LENGTH)

\* C1: a failed construction stores no entry, so the slot of the Component
\* Cache never holds the result of a failed attempt.
C1_NoFailedEntryStored ==
    NoArgs \in DOMAIN resCache => resCache[NoArgs].value # NonePair

\* C2: the body of init_components runs for one session at a time and only
\* while the slot holds no valid entry, so the sessions that arrive during a
\* construction wait for it and leave with the pair it stored; every session
\* leaves init_components with the pair the slot holds.
C2_SingleConstruction ==
    /\ [](Cardinality({s \in Sessions : pc[s] = "init_body"}) <= 1)
    /\ [][ /\ builds' <= builds + 1
           /\ builds' # builds => ~Fresh(resCache, NoArgs, TTL_COMPONENTS, now)
           /\ \A s \in Sessions :
                InitReturn(s) =>
                    /\ NoArgs \in DOMAIN resCache'
                    /\ <<db'[s], generator'[s]>> = resCache'[NoArgs].value
                    /\ ~BodyStep(s) => builds' = builds /\ resCache' = resCache ]_vars

\* A session that found the slot empty and waited left with the pair the only
\* construction stored, as did the session that constructed it.
C2_Witness ==
    \E s, t \in Sessions :
        /\ s # t /\ builds = 1
        /\ pc[s] \notin {"idle", "init_lookup", "init_wait", "init_body"}
        /\ pc[t] \notin {"idle", "init_lookup", "init_wait", "init_body"}
        /\ Has(log[s], "construct") /\ Has(log[t], "init_waited_hit")
        /\ db[t] # None /\ generator[s] = generator[t]
        /\ resCache[NoArgs].value = <<1, 1>>

\* C3: a get of the Query Result Cache or of the Generation Result Cache whose
\* key has an entry younger than 300 s returns the stored value, calls no
\* collaborator and changes no entry; and an entry stays as it was stored for
\* as long as it is younger than 300 s, whatever else is requested.
C3_CacheHitStability ==
    [][ /\ \A s \in Sessions :
            /\ SearchStep(s) /\ Fresh(qCache, SearchKey(s), TTL_QUERY, now) =>
                  /\ docs'[s] = qCache[SearchKey(s)].value
                  /\ docCalls' = docCalls /\ qCache' = qCache
            /\ GenerateStep(s) /\ Fresh(gCache, GenerateKey(s), TTL_GENERATION, now) =>
                  /\ generated_code'[s] = gCache[GenerateKey(s)].value
                  /\ genCalls' = genCalls /\ gCache' = gCache
            /\ ExplainStep(s) /\ Fresh(gCache, ExplainKey(s), TTL_GENERATION, now) =>
                  /\ explanation'[s] = gCache[ExplainKey(s)].value
                  /\ genCalls' = genCalls /\ gCache' = gCache
        /\ \A k \in DOMAIN qCache :
            Fresh(qCache, k, TTL_QUERY, now') =>
                k \in DOMAIN qCache' /\ qCache'[k] = qCache[k]
        /\ \A k \in DOMAIN gCache :
            Fresh(gCache, k, TTL_GENERATION, now') =>
                k \in DOMAIN gCache' /\ gCache'[k] = gCache[k] ]_vars

\* A query was served from its entry, 150 s old, after another key had been
\* stored in the meantime; the code too came from the cache.
C3_Witness ==
    \E s \in Sessions :
        /\ pc[s] = "explain"
        /\ Has(log[s], "search_hit") /\ Has(log[s], "generate_hit")
        /\ docs[s] = qCache[QueryKey(s)].value
        /\ now - qCache[QueryKey(s)].createdAt = 150
        /\ \E k \in DOMAIN qCache :
              k # QueryKey(s) /\ qCache[k].createdAt > qCache[QueryKey(s)].createdAt

\* C4: a get whose key has an entry of age >= ttl (300 s for the two result
\* caches, 3600 s for the component pair) calls the collaborator once, never
\* returns the expired value and, when the call returns, stores what it
\* returned under createdAt = now; init_components never returns from an
\* entry as old as 3600 s (a construction that fails again returns, and
\* stores, a new (None, None)).
C4_ExpiredEntryReplaced ==
    [][ \A s \in Sessions :
        /\ SearchStep(s) /\ Stale(qCache, SearchKey(s), TTL_QUERY, now) =>
              /\ docCalls' = docCalls + 1
              /\ docs'[s] # qCache[SearchKey(s)].value
              /\ pc'[s] = "generate" =>
                    qCache'[SearchKey(s)] = [value |-> docs'[s], createdAt |-> now]
        /\ GenerateStep(s) /\ Stale(gCache, GenerateKey(s), TTL_GENERATION, now) =>
              /\ genCalls' = genCalls + 1
              /\ generated_code'[s] # gCache[GenerateKey(s)].value
              /\ pc'[s] = "explain" =>
                    gCache'[GenerateKey(s)] =
                        [value |-> generated_code'[s], createdAt |-> now]
        /\ ExplainStep(s) /\ Stale(gCache, ExplainKey(s), TTL_GENERATION, now) =>
              /\ genCalls' = genCalls + 1
              /\ explanation'[s] # gCache[ExplainKey(s)].value
              /\ outcome'[s] = "ok" =>
                    gCache'[ExplainKey(s)] =
                        [value |-> explanation'[s], createdAt |-> now]
        /\ InitReturn(s) =>
              /\ Fresh(resCache', NoArgs, TTL_COMPONENTS, now)
              /\ Stale(resCache, NoArgs, TTL_COMPONENTS, now) =>
                    /\ builds' = builds + 1
                    /\ resCache'[NoArgs] =
                           [value |-> <<db'[s], generator'[s]>>, createdAt |-> now]
                    /\ db'[s] # None =>
                          resCache'[NoArgs].value # resCache[NoArgs].value ]_vars

\* A query whose entry had reached 300 s was retrieved again and stored under
\* the time of the call.
C4_Witness ==
    \E s \in Sessions :
        /\ pc[s] = "generate" /\ now >= TTL_QUERY
        /\ Has(log[s], "search_expired") /\ Last(log[s]) = "search"
        /\ qCache[QueryKey(s)] = [value |-> docs[s], createdAt |-> now]

\* The pair, 3600 s old, was constructed again.
C4_WitnessComponents ==
    \E s \in Sessions :
        /\ pc[s] = "after_init" /\ now = TTL_COMPONENTS
        /\ Has(log[s], "init_expired") /\ Last(log[s]) = "construct"
        /\ resCache[NoArgs] = [value |-> <<db[s], generator[s]>>, createdAt |-> now]

\* C5: once a refresh has rebuilt the store, the slot of the Component Cache
\* holds the rebuilt store (or a newer one).
C5_SlotHoldsRefreshedStore ==
    lastRefresh # 0 =>
        NoArgs \in DOMAIN resCache /\ resCache[NoArgs].value[1] >= lastRefresh

\* C5, at the refresh itself: the step that rebuilds the store installs the
\* new store with the reused model under createdAt = now.
C5_RefreshInstallsEntry ==
    [][ \A s \in Sessions :
        pc[s] = "after_init" /\ lastRefresh' # lastRefresh =>
            resCache'[NoArgs] =
                [value |-> <<lastRefresh', generator[s]>>, createdAt |-> now] ]_vars

\* C7: a call of the Document Store or of the Generation Model that raises
\* writes no entry and leaves every entry of the three caches as it was, the
\* failing call is the last thing the request does, and after a failure a
\* request whose calls return is served as usual.
C7_FailureIsolation ==
    /\ [](\A s \in Sessions :
            pc[s] = "footer" /\ outcome[s] = "error" =>
                Last(log[s]) \in {"search_failed", "generate_failed", "refresh_failed"})
    /\ [][ \A s \in Sessions :
           /\ pc[s] \in {"request", "generate", "explain"} /\ outcome'[s] = "error"
                /\ errors' # errors =>
                  /\ qCache' = qCache /\ gCache' = gCache /\ resCache' = resCache
                  /\ docCalls' + genCalls' = docCalls + genCalls + 1
                  /\ pc'[s] = "footer"
           /\ SearchStep(s) /\ errors >= 1 /\ errors' = errors =>
                  /\ pc'[s] = "generate"
                  /\ docs'[s] = qCache'[SearchKey(s)].value
                  /\ docs'[s] # NoValue ]_vars

\* A retrieval has just failed: its key has no entry and the entry stored
\* earlier under another key is still there and valid.
C7_Witness ==
    \E s \in Sessions :
        /\ pc[s] = "footer" /\ outcome[s] = "error"
        /\ Last(log[s]) = "search_failed"
        /\ QueryKey(s) \notin DOMAIN qCache
        /\ \E k \in DOMAIN qCache :
              /\ k[1] = db[s] /\ Fresh(qCache, k, TTL_QUERY, now)
              /\ qCache[k].value = <<db[s], 1>>
        /\ docCalls = 2

\* C9: after a refresh a query is never served from an entry that an older
\* store produced.
C9_NoStaleDocsAfterRefresh ==
    [][ \A s \in Sessions :
        SearchStep(s) /\ pc'[s] = "generate" /\ docCalls' = docCalls =>
            docs'[s][1] >= lastRefresh ]_vars

\* C6: the length handed to the Generation Model is the number of words of
\* the prompt plus 200, and 500 when that is less, whatever length was
\* requested: 50 words give 500, 400 words give 600.
C6_EffectiveLength ==
    lpc = "done" =>
        /\ lpassed = (IF lwords > 300 THEN lwords + 200 ELSE 500)
        /\ lpassed >= 500

\* A prompt of 400 words with 50 requested was handed on with 600.
C6_Witness ==
    lpc = "done" /\ lwords = 400 /\ lrequested = 50 /\ lpassed = 600

\* An explanation prompt of more than 300 words, requested with 300.
C6_WitnessExplain ==
    lpc = "done" /\ lrequested = 300 /\ lwords = 404 /\ lpassed = 604

\* The calls a run has made so far, in order, and what is said of them.
ConstructEvents == {"construct", "construct_failed"}
RequestEvents ==
    {"search", "search_hit", "search_expired", "search_failed",
     "generate", "generate_hit", "generate_expired", "generate_failed"}
ModelCalls == {"generate", "generate_failed"}
ReleaseBefore(l, i) == i > 1 /\ l[i - 1] = "clear"
ReleaseAfter(l, i) == i < Len(l) /\ l[i + 1] = "clear"

\* The release right before the pair is constructed.
ReleasedBeforeConstruction(l) ==
    \A i \in DOMAIN l : l[i] \in ConstructEvents => ReleaseBefore(l, i)

\* One release between the sidebar and a call of the model: the one that
\* opens the request.
ReleasedBeforeGeneration(l) ==
    /\ \A i \in DOMAIN l :
         l[i] \in ModelCalls =>
            \E j \in 1..(i - 1) :
                l[j] = "clear" /\ \A k \in (j + 1)..(i - 1) : l[k] \in RequestEvents
    /\ \A i \in DOMAIN l :
         l[i] \in RequestEvents /\ (i = 1 \/ l[i - 1] \notin RequestEvents) =>
            ReleaseBefore(l, i)

\* One release after the request's calls have all returned.
ReleasedAfterGeneration(s) ==
    pc[s] = "footer" /\ outcome[s] = "ok" =>
        /\ Len(log[s]) >= 2 /\ Last(log[s]) = "clear"
        /\ log[s][Len(log[s]) - 1] \in RequestEvents

C8_WitnessRequest ==
    cuda /\ \E s \in Sessions :
        /\ pc[s] = "footer"
        /\ log[s] = <<"clear", "construct", "clear", "search", "generate", "generate", "clear">>

\* C10 as claimed: a session that runs no flow has no open record.
C10_NoOpenRecordWhenIdle ==
    \A s \in Sessions : pc[s] = "idle" => monitor[s] = {}

\* C10 as amended: a flow that ended without a failure and without the stop
\* after a failed initialisation left no record open; after the stop
\* "app_startup" is open (and "init_components" too in the run whose
\* construction failed), and after a failed refresh, retrieval or generation
\* exactly the failed operation's record is open.
C10_RecordsClosedUnlessFailed ==
    \A s \in Sessions :
        pc[s] = "idle" =>
            /\ outcome[s] \in {"none", "ok"} => monitor[s] = {}
            /\ outcome[s] = "stopped" =>
                  /\ "app_startup" \in monitor[s]
                  /\ monitor[s] \subseteq {"app_startup", "init_components"}
            /\ outcome[s] = "error" =>
                  /\ Cardinality(monitor[s]) = 1
                  /\ monitor[s] \subseteq
                        {"refresh_database", "similarity_search", "code_generation"}

\* A request with retrieval, generation and explanation ended and every
\* record it opened is closed.
C10_Witness ==
    \E s \in Sessions :
        /\ pc[s] = "idle" /\ outcome[s] = "ok" /\ monitor[s] = {}
        /\ docCalls >= 1 /\ genCalls >= 2 /\ builds = 1 /\ runs = 1

\* One session, run after run.
Next ==
    \/ \E s \in Solo : RunStart(s, MaxRuns)
    \/ \E s \in Solo : InitLookup(s)
    \/ \E s \in Solo : InitAcquire(s)
    \/ \E s \in Solo : InitBody(s)
    \/ \E s \in Solo : StopRun(s)
    \/ \E s \in Solo : Sidebar(s)
    \/ \E s \in Solo : SkipRequest(s)
    \/ \E s \in Solo : Search(s, Requests)
    \/ \E s \in Solo : Generate(s)
    \/ \E s \in Solo : Explain(s)
    \/ \E s \in Solo : Footer(s)
    \/ Tick(Instants)

Spec == Init /\ [][Next]_vars

\* Two sessions whose runs interleave step by step.
NextConc ==
    \/ \E s \in Sessions : RunStart(s, MaxRunsConc)
    \/ \E s \in Sessions : InitLookup(s)
    \/ \E s \in Sessions : InitAcquire(s)
    \/ \E s \in Sessions : InitBody(s)
    \/ \E s \in Sessions : StopRun(s)
    \/ \E s \in Sessions : Sidebar(s)
    \/ \E s \in Sessions : SkipRequest(s)
    \/ \E s \in Sessions : Search(s, ConcRequests)
    \/ \E s \in Sessions : Generate(s)
    \/ \E s \in Sessions : Explain(s)
    \/ \E s \in Sessions : Footer(s)
    \/ Tick(ConcInstants)

SpecConc == Init /\ [][NextConc]_vars
====
